---- MODULE Spec2Model ----
(***************************************************************************)
(* A model of the Airflow MCP server repository:                           *)
(*   - working_mcp_server.py : the line-protocol engine (run,              *)
(*     handle_message, call_tool, make_request), specification EngineSpec; *)
(*   - src/airflow_mcp_server/server.py with client.py : the tool registry *)
(*     and the dispatcher (handle_list_tools, handle_call_tool,            *)
(*     _execute_tool), specification ServerSpec;                           *)
(*   - src/airflow_mcp_server/main.py with config.py : the start of the    *)
(*     package entry point (from_env, validate, main), specification       *)
(*     MainSpec;                                                           *)
(*   - src/airflow_mcp_server/fastmcp_server.py : the FastMCP entry point  *)
(*     (the tool functions, register_write_tools, main); in               *)
(*     EntryPointsSpec one of the three servers runs.                      *)
(***************************************************************************)
EXTENDS Integers, Sequences, FiniteSets, TLC

VARIABLES
    pc,            \* engine: position of run(): "read", "upstream" or "stopped"
    line,          \* engine: the line run() read last
    out,           \* engine: the lines printed while handling `line`
    http,          \* engine: the HTTP requests issued while handling `line`
    pending,       \* engine: the tools/call suspended in make_request
    nread,         \* engine: how many lines run() has read
    seen,          \* engine: the kinds of the lines handled before `line`
    access_level,  \* server: config.access_level
    s_pc,          \* server: position of handle_call_tool
    call,          \* server: the (name, arguments) of the last tool call
    clients,       \* server: the AirflowAPIClient handles that are open
    s_http,        \* server: the HTTP requests issued by the last tool call
    content,       \* server: what handle_call_tool returned for the last call
    listed,        \* server: what handle_list_tools returned last
    ncalls,        \* server: how many handlers have been started
    opened,        \* server: the AirflowAPIClient handles built so far
    s_reply,       \* server: the upstream's answer to the last request
    failed,        \* server: the calls (by number) that returned an error text
    env,           \* main: the environment variables main() starts with
    config,        \* main: the AirflowConfig that from_env built
    m_pc,          \* main: position of main()
    exit_status,   \* main: the exit status of the process, once it has ended
    served,        \* main: the requests main() has read from the protocol stream
    m_out,         \* main: the lines main() has written to the protocol stream
    f_pc,          \* fastmcp: position of main() and of the tool function
    mcp,           \* fastmcp: the names of the tools registered with FastMCP
    f_call,        \* fastmcp: the (name, arguments) of the last tool call
    f_http         \* fastmcp: the HTTP requests issued by the last tool call

engine_vars == <<pc, line, out, http, pending, nread, seen>>
server_vars ==
    <<access_level, s_pc, call, clients, s_http, content, listed, ncalls, opened,
      s_reply, failed>>
main_vars == <<env, config, m_pc, exit_status, served, m_out>>
fast_vars == <<f_pc, mcp, f_call, f_http>>
vars == <<engine_vars, server_vars, main_vars, fast_vars>>

(***************************************************************************)
(* Bounds of the model.                                                    *)
(***************************************************************************)
MaxLines == 3
MaxCalls == 2

(***************************************************************************)
(* Python values and JSON lexemes.  A scalar on the wire is a JSON lexeme  *)
(* (a string of the line); json.loads turns it into a Python value, which  *)
(* is a type and its str() form; json.dumps turns a Python value back into *)
(* a lexeme.  The empty lexeme stands for a member that is not there.      *)
(***************************************************************************)
None == [type |-> "NoneType", val |-> "None"]
PyInt(s) == [type |-> "int", val |-> s]
PyStr(s) == [type |-> "str", val |-> s]
PyBool(s) == [type |-> "bool", val |-> s]
Missing == [type |-> "<missing>", val |-> ""]

Quote(s) == "\"" \o s \o "\""

\* The strings that occur as JSON string lexemes in the inputs of the model.
StringValues ==
    {"", "7", "initialize", "ping", "tools/list", "tools/call", "foo/bar",
     "notifications/initialized", "list_dags", "get_health", "trigger_dag",
     "no_such_tool"}

json_loads_scalar(lex) ==
    IF lex = "" THEN Missing
    ELSE IF \E s \in StringValues : lex = Quote(s)
         THEN PyStr(CHOOSE s \in StringValues : lex = Quote(s))
    ELSE IF lex = "null" THEN None
    ELSE IF lex = "true" THEN PyBool("True")
    ELSE IF lex = "false" THEN PyBool("False")
    ELSE PyInt(lex)

\* A faulty json.dumps: the value formatted as str() does, without quotes.
json_dumps_scalar_str(v) == v.val

json_dumps_scalar(v) ==
    IF v.type = "NoneType" THEN "null"
    ELSE IF v.type = "bool" THEN (IF v.val = "True" THEN "true" ELSE "false")
    ELSE IF v.type = "str" THEN Quote(v.val)
    ELSE v.val

\* dict.get(key, default): the member when it is there, else the default.
dict_get(member, default) == IF member = Missing THEN default ELSE member

\* str(v), as an f-string formats a value.
format(v) == v.val


(***************************************************************************)
(* The lines of the input stream (working_mcp_server.py).  A line is what  *)
(* sys.stdin.readline gives: the end of the stream, a fault of the stream, *)
(* a blank line, a text that is no JSON document, or a JSON document.  A   *)
(* document is given by its top-level type and, for an object, by the      *)
(* lexemes of the members the engine reads.                                *)
(***************************************************************************)
NoArguments == [type |-> "", limit |-> "", offset |-> ""]
NoParams == [type |-> "", name |-> "", arguments |-> NoArguments]
NoDoc == [type |-> "", id |-> "", method |-> "", params |-> NoParams]

IdLexemes == {"", "null", "0", "7", Quote(""), Quote("7"), "false"}

MethodLexemes ==
    {"", Quote("initialize"), Quote("ping"), Quote("tools/list"),
     Quote("tools/call"), Quote("foo/bar"), Quote("notifications/initialized")}

NameLexemes ==
    {"", Quote("list_dags"), Quote("get_health"), Quote("trigger_dag"),
     Quote("no_such_tool")}

ArgumentsDocs ==
    {NoArguments,
     [type |-> "null", limit |-> "", offset |-> ""],
     [type |-> "array", limit |-> "", offset |-> ""],
     [type |-> "object", limit |-> "", offset |-> ""],
     [type |-> "object", limit |-> "5", offset |-> ""],
     [type |-> "object", limit |-> "5", offset |-> "10"],
     [type |-> "object", limit |-> Quote("7"), offset |-> ""]}

Message(i, m, p) == [type |-> "object", id |-> i, method |-> m, params |-> p]

ParamsOf(t) == [type |-> t, name |-> "", arguments |-> NoArguments]

ObjectParams(n, a) == [type |-> "object", name |-> n, arguments |-> a]

\* The params of the tools/call documents: not there, not an object, and an
\* object for each tool name; every shape of arguments for list_dags, the one
\* tool that reads them.
ToolCallParams ==
    {NoParams, ParamsOf("null"), ParamsOf("number"), ParamsOf("array")}
    \cup {ObjectParams(Quote("list_dags"), a) : a \in ArgumentsDocs}
    \cup {ObjectParams(n, a) :
            n \in NameLexemes \ {Quote("list_dags")},
            a \in {NoArguments, [type |-> "null", limit |-> "", offset |-> ""]}}

\* The documents that are objects: every id with every method, every shape
\* of params with an id (a number, a string) and without one, and every id
\* with a tools/call of list_dags.
Messages ==
    {Message(i, m, NoParams) : i \in IdLexemes, m \in MethodLexemes}
    \cup {Message(i, m, p) :
            i \in {"", "7"},
            m \in MethodLexemes \ {Quote("tools/call")},
            p \in {ParamsOf("null"), ParamsOf("object")}}
    \cup {Message(i, Quote("tools/call"), p) :
            i \in {"", "7", Quote("7")}, p \in ToolCallParams}
    \cup {Message(i, Quote("tools/call"),
                  ObjectParams(Quote("list_dags"),
                               [type |-> "object", limit |-> "5", offset |-> ""])) :
            i \in IdLexemes}

NonObjectDocs ==
    {[type |-> t, id |-> "", method |-> "", params |-> NoParams] :
        t \in {"array", "number", "string", "null"}}

Lines ==
    {[kind |-> k, doc |-> NoDoc] : k \in {"eof", "ioerror", "blank", "garbage"}}
    \cup {[kind |-> "json", doc |-> d] : d \in Messages \cup NonObjectDocs}

(***************************************************************************)
(* json.loads of a document: the Python value of the line.                 *)
(***************************************************************************)
json_loads_type(t) ==
    IF t = "object" THEN "dict"
    ELSE IF t = "array" THEN "list"
    ELSE IF t = "number" THEN "int"
    ELSE IF t = "string" THEN "str"
    ELSE IF t = "null" THEN "NoneType"
    ELSE "<missing>"

json_loads_arguments(a) ==
    [type |-> json_loads_type(a.type),
     limit |-> json_loads_scalar(a.limit),
     offset |-> json_loads_scalar(a.offset)]

json_loads_params(p) ==
    [type |-> json_loads_type(p.type),
     name |-> json_loads_scalar(p.name),
     arguments |-> json_loads_arguments(p.arguments)]

json_loads(doc) ==
    [type |-> json_loads_type(doc.type),
     id |-> json_loads_scalar(doc.id),
     method |-> json_loads_scalar(doc.method),
     params |-> json_loads_params(doc.params)]

\* The empty dict {} that message.get("params", {}) and
\* params.get("arguments", {}) fall back to.
EmptyArguments == [type |-> "dict", limit |-> Missing, offset |-> Missing]
EmptyParams ==
    [type |-> "dict", name |-> Missing,
     arguments |-> [type |-> "<missing>", limit |-> Missing, offset |-> Missing]]


(***************************************************************************)
(* working_mcp_server.py: make_request, call_tool, handle_message.         *)
(***************************************************************************)
base_url == "http://localhost:8082" \o "/api/v1"

\* What urlopen and the decoding of its body give for one request.
Replies ==
    {[outcome |-> "ok", exc |-> "", key |-> "dags", value |-> "[]"],
     [outcome |-> "ok", exc |-> "", key |-> "error", value |-> Quote("upstream")],
     [outcome |-> "http_error", exc |-> "HTTP Error 404: Not Found",
      key |-> "", value |-> ""],
     [outcome |-> "http_error", exc |-> "HTTP Error 500: Internal Server Error",
      key |-> "", value |-> ""],
     [outcome |-> "url_error",
      exc |-> "<urlopen error [Errno 111] Connection refused>",
      key |-> "", value |-> ""],
     [outcome |-> "timeout", exc |-> "timed out", key |-> "", value |-> ""],
     [outcome |-> "bad_body", exc |-> "Expecting value: line 1 column 1 (char 0)",
      key |-> "", value |-> ""]}

\* A tool result: the decoded upstream body, or the dict {"error": ...}.
ErrorResult(msg) == [kind |-> "error", error |-> msg, key |-> "", value |-> ""]
BodyResult(key, value) == [kind |-> "body", error |-> "", key |-> key, value |-> value]

make_request(endpoint, reply) ==
    IF reply.outcome = "ok"
    THEN BodyResult(reply.key, reply.value)
    ELSE ErrorResult("API request failed: " \o reply.exc)

\* json.dumps(result, indent=2)
json_dumps_indent(result) ==
    IF result.kind = "error"
    THEN "{\n  " \o Quote("error") \o ": " \o Quote(result.error) \o "\n}"
    ELSE "{\n  " \o Quote(result.key) \o ": " \o result.value \o "\n}"

NoResult == [kind |-> "none", info |-> <<>>, tools |-> <<>>, text |-> ""]
NoError == [code |-> 0, message |-> ""]
NoneResponse ==
    [jsonrpc |-> "", id |-> None, member |-> "None", result |-> NoResult,
     error |-> NoError]

ResultResponse(msg_id, result) ==
    [jsonrpc |-> "2.0", id |-> msg_id, member |-> "result", result |-> result,
     error |-> NoError]

initialize_response(msg_id) ==
    ResultResponse(msg_id,
        [kind |-> "initialize",
         info |-> <<"2024-11-05", "airflow-mcp-server", "0.1.0">>,
         tools |-> <<>>, text |-> ""])

\* A faulty ping branch: the result is not the empty object.
ping_response_pong(msg_id) ==
    ResultResponse(msg_id,
        [kind |-> "content", info |-> <<>>, tools |-> <<>>, text |-> "pong"])

ping_response(msg_id) ==
    ResultResponse(msg_id,
        [kind |-> "empty", info |-> <<>>, tools |-> <<>>, text |-> ""])

\* A faulty tools/list branch that also lists a tool call_tool does not know.
tools_list_response_with_trigger_dag(msg_id) ==
    ResultResponse(msg_id,
        [kind |-> "tools", info |-> <<>>,
         tools |-> <<"list_dags", "get_health", "trigger_dag">>, text |-> ""])

tools_list_response(msg_id) ==
    ResultResponse(msg_id,
        [kind |-> "tools", info |-> <<>>, tools |-> <<"list_dags", "get_health">>,
         text |-> ""])

\* A faulty tools/call branch: a failed tool call surfaces as a JSON-RPC error.
tools_call_response_rpc_error(msg_id, result) ==
    IF result.kind = "error"
    THEN [jsonrpc |-> "2.0", id |-> msg_id, member |-> "error",
          result |-> NoResult,
          error |-> [code |-> -32000, message |-> result.error]]
    ELSE ResultResponse(msg_id,
             [kind |-> "content", info |-> <<>>, tools |-> <<>>,
              text |-> json_dumps_indent(result)])

tools_call_response(msg_id, result) ==
    ResultResponse(msg_id,
        [kind |-> "content", info |-> <<>>, tools |-> <<>>,
         text |-> json_dumps_indent(result)])

\* A faulty fallback branch: the code of "invalid request" in place of -32601.
method_not_found_response_invalid_request(msg_id, method) ==
    [jsonrpc |-> "2.0", id |-> msg_id, member |-> "error", result |-> NoResult,
     error |-> [code |-> -32600,
                message |-> "Method not found: " \o format(method)]]

method_not_found_response(msg_id, method) ==
    [jsonrpc |-> "2.0", id |-> msg_id, member |-> "error", result |-> NoResult,
     error |-> [code |-> -32601,
                message |-> "Method not found: " \o format(method)]]

\* What a coroutine does up to its first wait on the upstream: it raises,
\* it returns, or it issues a request and waits for urlopen.
Raise(exc) == [kind |-> "raise", exc |-> exc, value |-> NoneResponse,
               result |-> ErrorResult(""), endpoint |-> "", msg_id |-> None]
Return(response) == [kind |-> "return", exc |-> "", value |-> response,
                     result |-> ErrorResult(""), endpoint |-> "", msg_id |-> None]
ReturnResult(result) == [kind |-> "return", exc |-> "", value |-> NoneResponse,
                         result |-> result, endpoint |-> "", msg_id |-> None]
Request(endpoint) == [kind |-> "request", exc |-> "", value |-> NoneResponse,
                      result |-> ErrorResult(""), endpoint |-> endpoint,
                      msg_id |-> None]

call_tool(tool_name, arguments) ==
    IF tool_name = PyStr("list_dags")
    THEN IF arguments.type # "dict"
         THEN Raise("AttributeError")
         ELSE Request("/dags?limit=" \o format(dict_get(arguments.limit, PyInt("100"))))
    ELSE IF tool_name = PyStr("get_health")
    THEN Request("/health")
    ELSE ReturnResult(ErrorResult("Unknown tool: " \o format(tool_name)))

\* A faulty handle_message without the early return for notifications.
is_notification_never(msg_id) == FALSE

is_notification(msg_id) == msg_id = None

handle_tools_call(message, msg_id) ==
    LET params == IF message.params.type = "<missing>" THEN EmptyParams
                  ELSE message.params
    IN  IF params.type # "dict"
        THEN Raise("AttributeError")
        ELSE LET tool_name == dict_get(params.name, None)
                 arguments == IF params.arguments.type = "<missing>"
                              THEN EmptyArguments ELSE params.arguments
                 step == call_tool(tool_name, arguments)
             IN  IF step.kind = "return"
                 THEN Return(tools_call_response(msg_id, step.result))
                 ELSE [step EXCEPT !.msg_id = msg_id]

handle_message(message) ==
    IF message.type # "dict"
    THEN Raise("AttributeError")
    ELSE LET method == dict_get(message.method, None)
             msg_id == dict_get(message.id, None)
         IN  IF is_notification(msg_id) THEN Return(NoneResponse)
             ELSE IF method = PyStr("initialize")
                  THEN Return(initialize_response(msg_id))
             ELSE IF method = PyStr("ping")
                  THEN Return(ping_response(msg_id))
             ELSE IF method = PyStr("tools/list")
                  THEN Return(tools_list_response(msg_id))
             ELSE IF method = PyStr("tools/call")
                  THEN handle_tools_call(message, msg_id)
             ELSE Return(method_not_found_response(msg_id, method))

\* json.dumps(response): the line that print writes.
json_dumps(response) ==
    [jsonrpc |-> response.jsonrpc, id |-> json_dumps_scalar(response.id),
     member |-> response.member, result |-> response.result,
     error |-> response.error]


(***************************************************************************)
(* working_mcp_server.py: run, the loop over the lines of the input.       *)
(***************************************************************************)
NoLine == [kind |-> "none", doc |-> NoDoc]
NoReply == [outcome |-> "", exc |-> "", key |-> "", value |-> ""]
NoPending == [active |-> FALSE, msg_id |-> None, endpoint |-> "", reply |-> NoReply]

\* A faulty run() that leaves the loop on a line that is no JSON.
except_JSONDecodeError_break == "stopped"

\* The two handlers of run(): a line that is no JSON is skipped (continue),
\* any other exception ends the loop (break).
except_JSONDecodeError == "read"
except_Exception == "stopped"

\* A faulty run() that starts handle_message as a task and goes on reading
\* without waiting for it.
await_handle_message_create_task == "read"

\* response = await self.handle_message(message): while the tool call waits
\* for the upstream, run() is suspended in this await and reads nothing.
await_handle_message == "upstream"

\* if response is not None: print(json.dumps(response), flush=True)
print_response(response) ==
    IF response = NoneResponse THEN <<>> ELSE <<json_dumps(response)>>

\* One pass of the loop for the line l, up to the wait on the upstream if the
\* line is a tool call that reaches make_request.
run_iteration(l) ==
    LET idle(p) == [pc |-> p, out |-> <<>>, http |-> <<>>, pending |-> NoPending]
    IN  IF l.kind = "eof" THEN idle("stopped")
        ELSE IF l.kind = "ioerror" THEN idle(except_Exception)
        ELSE IF l.kind = "blank" THEN idle("read")
        ELSE IF l.kind = "garbage" THEN idle(except_JSONDecodeError)
        ELSE LET step == handle_message(json_loads(l.doc))
             IN  IF step.kind = "raise" THEN idle(except_Exception)
                 ELSE IF step.kind = "return"
                 THEN [pc |-> "read", out |-> print_response(step.value),
                       http |-> <<>>, pending |-> NoPending]
                 ELSE [pc |-> await_handle_message, out |-> <<>>,
                       http |-> <<[verb |-> "GET",
                                   url |-> base_url \o step.endpoint]>>,
                       pending |-> [active |-> TRUE, msg_id |-> step.msg_id,
                                    endpoint |-> step.endpoint,
                                    reply |-> NoReply]]

\* run_iteration, tabulated over the lines of the model.
Iterations == [l \in Lines |-> run_iteration(l)]

\* How a handled line counts in the history of the stream.
LineKind(l, o) ==
    IF l.kind # "json" THEN l.kind
    ELSE IF o = <<>> THEN "notification"
    ELSE IF o[1].member = "error" THEN "method_not_found"
    ELSE IF o[1].result.kind = "content" /\ pending.reply.outcome # "ok"
         THEN "failed_call"
    ELSE "request"

(***************************************************************************)
(* src/airflow_mcp_server/config.py and server.py: the tool registry.      *)
(***************************************************************************)
READ_ONLY == "read_only"
FULL == "full"
AccessLevel == {READ_ONLY, FULL}

\* types.Tool(name, inputSchema): the properties of the schema, its required
\* list and the defaults it declares (as JSON lexemes).
Tool(name, properties, required, defaults) ==
    [name |-> name, properties |-> properties, required |-> required,
     defaults |-> defaults]

\* A faulty registry whose schemas declare a page of 10 where the dispatcher
\* applies 100.
Paging_limit_10 == {<<"limit", "10">>, <<"offset", "0">>}

\* "limit": {..., "default": 100}, "offset": {..., "default": 0}
Paging == {<<"limit", "100">>, <<"offset", "0">>}

tools ==
    << Tool("list_dags", {"limit", "offset"}, <<>>, Paging),
       Tool("get_dag", {"dag_id"}, <<"dag_id">>, {}),
       Tool("get_dag_runs", {"dag_id", "limit", "offset"}, <<"dag_id">>, Paging),
       Tool("get_task_instances", {"dag_id", "dag_run_id", "limit", "offset"},
            <<"dag_id", "dag_run_id">>, Paging),
       Tool("get_task_logs", {"dag_id", "dag_run_id", "task_id", "task_try_number"},
            <<"dag_id", "dag_run_id", "task_id">>, {<<"task_try_number", "1">>}),
       Tool("get_variables", {"limit", "offset"}, <<>>, Paging),
       Tool("get_variable", {"key"}, <<"key">>, {}),
       Tool("get_connections", {"limit", "offset"}, <<>>, Paging),
       Tool("get_health", {}, <<>>, {}) >>

write_tools ==
    << Tool("trigger_dag", {"dag_id", "conf"}, <<"dag_id">>, {}),
       Tool("pause_dag", {"dag_id"}, <<"dag_id">>, {}),
       Tool("unpause_dag", {"dag_id"}, <<"dag_id">>, {}),
       Tool("set_variable", {"key", "value", "description"}, <<"key", "value">>,
            {<<"description", Quote("")>>}),
       Tool("delete_variable", {"key"}, <<"key">>, {}) >>

\* A faulty registry that lists the write tools under every access level.
extends_write_tools_always(level) == TRUE

\* if self.config.access_level != AccessLevel.READ_ONLY: tools.extend(write_tools)
extends_write_tools(level) == level # READ_ONLY

handle_list_tools(level) ==
    IF extends_write_tools(level) THEN tools \o write_tools ELSE tools

(***************************************************************************)
(* client.py: the requests of AirflowAPIClient.  A request is the handle   *)
(* it goes through, the verb, the URL, the query and the JSON body.        *)
(***************************************************************************)
client_base_url == "http://localhost:8080" \o "/api/v1"

NoQuery == {}
NoJson == [given |-> FALSE, members |-> {}]
Json(members) == [given |-> TRUE, members |-> members]

\* self.client.request(method, url, params=params, json=json)
_request(method, endpoint, params, json) ==
    [verb |-> method, url |-> client_base_url \o endpoint, params |-> params,
     json |-> json]

Page(limit, offset) == {<<"limit", format(limit)>>, <<"offset", format(offset)>>}

\* bool(v), as `if conf:` and `not self.username` test it.
truthy(v) ==
    /\ v.type \notin {"NoneType", "<missing>"}
    /\ v.type = "str" => v.val # ""
    /\ v.type = "int" => v.val # "0"
    /\ v.type = "bool" => v.val # "False"
    /\ v.type = "dict" => v.val # "{}"

get_dags(limit, offset) == _request("GET", "/dags", Page(limit, offset), NoJson)

get_dag(dag_id) == _request("GET", "/dags/" \o format(dag_id), NoQuery, NoJson)

trigger_dag(dag_id, conf) ==
    _request("POST", "/dags/" \o format(dag_id) \o "/dagRuns", NoQuery,
             Json(IF truthy(conf) THEN {<<"conf", format(conf)>>} ELSE {}))

pause_dag(dag_id) ==
    _request("PATCH", "/dags/" \o format(dag_id), NoQuery,
             Json({<<"is_paused", "True">>}))

unpause_dag(dag_id) ==
    _request("PATCH", "/dags/" \o format(dag_id), NoQuery,
             Json({<<"is_paused", "False">>}))

get_dag_runs(dag_id, limit, offset) ==
    _request("GET", "/dags/" \o format(dag_id) \o "/dagRuns",
             Page(limit, offset), NoJson)

get_task_instances(dag_id, dag_run_id, limit, offset) ==
    _request("GET",
             "/dags/" \o format(dag_id) \o "/dagRuns/" \o format(dag_run_id)
                 \o "/taskInstances",
             Page(limit, offset), NoJson)

get_task_instance_logs(dag_id, dag_run_id, task_id, task_try_number) ==
    _request("GET",
             "/dags/" \o format(dag_id) \o "/dagRuns/" \o format(dag_run_id)
                 \o "/taskInstances/" \o format(task_id) \o "/logs/"
                 \o format(task_try_number),
             NoQuery, NoJson)

get_variables(limit, offset) ==
    _request("GET", "/variables", Page(limit, offset), NoJson)

get_variable(variable_key) ==
    _request("GET", "/variables/" \o format(variable_key), NoQuery, NoJson)

set_variable(key, value, description) ==
    _request("POST", "/variables", NoQuery,
             Json({<<"key", format(key)>>, <<"value", format(value)>>,
                   <<"description", format(description)>>}))

delete_variable(variable_key) ==
    _request("DELETE", "/variables/" \o format(variable_key), NoQuery, NoJson)

get_connections(limit, offset) ==
    _request("GET", "/connections", Page(limit, offset), NoJson)

get_health == _request("GET", "/health", NoQuery, NoJson)

(***************************************************************************)
(* server.py: _execute_tool.  The argument map gives each argument name a  *)
(* Python value, or Missing when the key is not in the map.                *)
(***************************************************************************)
ArgNames ==
    {"dag_id", "dag_run_id", "task_id", "task_try_number", "limit", "offset",
     "key", "value", "description", "conf"}

NoArgs == [a \in ArgNames |-> Missing]

\* The outcome of _execute_tool up to its wait on the upstream: it raises
\* (str(e) is kept), or it has issued one request.
NoRequest == _request("", "", NoQuery, NoJson)
Raises(exc, msg) == [kind |-> "raise", exc |-> exc, msg |-> msg, request |-> NoRequest]
Awaits(request) == [kind |-> "request", exc |-> "", msg |-> "", request |-> request]

\* A faulty dispatcher that reads its required arguments with .get(k).
with_required_get(arguments, ks, step) == step

\* arguments[k] of each k of ks, left to right: the first key that is not in
\* the map raises KeyError(k); str(KeyError(k)) is the repr of k.
RECURSIVE with_required(_, _, _)
with_required(arguments, ks, step) ==
    IF ks = <<>> THEN step
    ELSE IF arguments[Head(ks)] = Missing
         THEN Raises("KeyError", "'" \o Head(ks) \o "'")
         ELSE with_required(arguments, Tail(ks), step)

\* A faulty dispatcher that reads its optional arguments with .get(k) alone.
get_without_default(arguments, k, default) == dict_get(arguments[k], None)

\* arguments.get(k, default)
get(arguments, k, default) == dict_get(arguments[k], default)

\* A faulty dispatcher without the access-level check of the write tools.
write_permitted_always(level) == TRUE

\* if self.config.access_level == AccessLevel.READ_ONLY: raise ValueError(...)
write_permitted(level) == level # READ_ONLY

read_only_error == Raises("ValueError", "Operation not permitted in read-only mode")

\* A faulty dispatcher whose last branch serves a name it does not know.
unknown_tool_get_health(name) == Awaits(get_health)

\* else: raise ValueError(f"Unknown tool: {name}")
unknown_tool(name) == Raises("ValueError", "Unknown tool: " \o name)

\* A faulty write branch that reads its arguments before it checks the
\* access level.
write_branch_arguments_first(level, a, names, step) ==
    with_required(a, names,
                  IF ~write_permitted(level) THEN read_only_error ELSE step)

\* A branch of a write tool: if self.config.access_level ==
\* AccessLevel.READ_ONLY: raise ValueError(...), and only then the reading
\* of arguments[...].
write_branch(level, a, names, step) ==
    IF ~write_permitted(level) THEN read_only_error
    ELSE with_required(a, names, step)

_execute_tool(level, name, arguments) ==
    LET a == arguments
        limit == get(a, "limit", PyInt("100"))
        offset == get(a, "offset", PyInt("0"))
    IN  IF name = "list_dags" THEN Awaits(get_dags(limit, offset))
        ELSE IF name = "get_dag"
        THEN with_required(a, <<"dag_id">>, Awaits(get_dag(a["dag_id"])))
        ELSE IF name = "get_dag_runs"
        THEN with_required(a, <<"dag_id">>,
                 Awaits(get_dag_runs(a["dag_id"], limit, offset)))
        ELSE IF name = "get_task_instances"
        THEN with_required(a, <<"dag_id", "dag_run_id">>,
                 Awaits(get_task_instances(a["dag_id"], a["dag_run_id"],
                                           limit, offset)))
        ELSE IF name = "get_task_logs"
        THEN with_required(a, <<"dag_id", "dag_run_id", "task_id">>,
                 Awaits(get_task_instance_logs(
                     a["dag_id"], a["dag_run_id"], a["task_id"],
                     get(a, "task_try_number", PyInt("1")))))
        ELSE IF name = "get_variables" THEN Awaits(get_variables(limit, offset))
        ELSE IF name = "get_variable"
        THEN with_required(a, <<"key">>, Awaits(get_variable(a["key"])))
        ELSE IF name = "get_connections"
        THEN Awaits(get_connections(limit, offset))
        ELSE IF name = "get_health" THEN Awaits(get_health)
        ELSE IF name = "trigger_dag"
        THEN write_branch(level, a, <<"dag_id">>,
                 Awaits(trigger_dag(a["dag_id"], get(a, "conf", None))))
        ELSE IF name = "pause_dag"
        THEN write_branch(level, a, <<"dag_id">>, Awaits(pause_dag(a["dag_id"])))
        ELSE IF name = "unpause_dag"
        THEN write_branch(level, a, <<"dag_id">>,
                 Awaits(unpause_dag(a["dag_id"])))
        ELSE IF name = "set_variable"
        THEN write_branch(level, a, <<"key", "value">>,
                 Awaits(set_variable(a["key"], a["value"],
                                     get(a, "description", PyStr("")))))
        ELSE IF name = "delete_variable"
        THEN write_branch(level, a, <<"key">>, Awaits(delete_variable(a["key"])))
        ELSE unknown_tool(name)

(***************************************************************************)
(* server.py: handle_call_tool, with the upstream's answer to the request  *)
(* (client.py _request: raise_for_status, response.json).                  *)
(***************************************************************************)
\* What the upstream does with one request: a status and a body, or a
\* failure of the transport.
ServerReplies ==
    {[outcome |-> "response", status |-> 200, json_body |-> TRUE,
      exc |-> "", key |-> "dags", value |-> "[]"],
     [outcome |-> "response", status |-> 204, json_body |-> FALSE,
      exc |-> "", key |-> "", value |-> ""],
     [outcome |-> "response", status |-> 404, json_body |-> TRUE,
      exc |-> "Client error '404 Not Found'", key |-> "detail",
      value |-> Quote("not found")],
     [outcome |-> "response", status |-> 500, json_body |-> FALSE,
      exc |-> "Server error '500 Internal Server Error'", key |-> "",
      value |-> ""],
     [outcome |-> "transport", status |-> 0, json_body |-> FALSE,
      exc |-> "All connection attempts failed", key |-> "", value |-> ""],
     [outcome |-> "transport", status |-> 0, json_body |-> FALSE,
      exc |-> "", key |-> "", value |-> ""]}

NoServerReply ==
    [outcome |-> "", status |-> 0, json_body |-> FALSE, exc |-> "", key |-> "",
     value |-> ""]

\* The answers the upstream may give to a request: the answer without a body
\* (204 No Content) is the one the REST API gives to a DELETE.
Upstream(request) ==
    {r \in ServerReplies : r.status = 204 => request.verb = "DELETE"}

is_success(status) == status >= 200 /\ status <= 299

\* response = await self.client.request(...); response.raise_for_status();
\* return response.json()
request_outcome(request, reply) ==
    IF reply.outcome = "transport"
    THEN [kind |-> "raise", msg |-> reply.exc, result |-> ErrorResult("")]
    ELSE IF ~is_success(reply.status)
    THEN [kind |-> "raise",
          msg |-> reply.exc \o " for url '" \o request.url \o "'",
          result |-> ErrorResult("")]
    ELSE IF ~reply.json_body
    THEN [kind |-> "raise", msg |-> "Expecting value: line 1 column 1 (char 0)",
          result |-> ErrorResult("")]
    ELSE [kind |-> "return", msg |-> "",
          result |-> BodyResult(reply.key, reply.value)]

TextContent(text) == [type |-> "text", text |-> text]

\* return [types.TextContent(type="text", text=json.dumps(result, indent=2))]
result_content(result) == <<TextContent(json_dumps_indent(result))>>

\* except Exception as e: return [types.TextContent(type="text",
\*                                                   text=f"Error: {str(e)}")]
error_content(msg) == <<TextContent("Error: " \o msg)>>

\* The values the argument maps of the model give to the argument names.
ArgValue ==
    [a \in ArgNames |->
        IF a = "dag_id" THEN PyStr("etl")
        ELSE IF a = "dag_run_id" THEN PyStr("run1")
        ELSE IF a = "task_id" THEN PyStr("load")
        ELSE IF a = "task_try_number" THEN PyInt("2")
        ELSE IF a = "limit" THEN PyInt("5")
        ELSE IF a = "offset" THEN PyInt("10")
        ELSE IF a = "key" THEN PyStr("k")
        ELSE IF a = "value" THEN PyStr("v")
        ELSE IF a = "description" THEN PyStr("d")
        ELSE [type |-> "dict", val |-> "{'x': 1}"]]

Args(S) == [a \in ArgNames |-> IF a \in S THEN ArgValue[a] ELSE Missing]

AllTools == tools \o write_tools

ToolNames == {AllTools[i].name : i \in 1..Len(AllTools)}

Properties(name) ==
    IF name \in ToolNames
    THEN (CHOOSE t \in {AllTools[i] : i \in 1..Len(AllTools)} : t.name = name).properties
    ELSE {}

\* The names of the calls: the fourteen tools and names that are none of them.
UnknownNames == {"no_such_tool", "LIST_DAGS", ""}

CallNames == ToolNames \cup UnknownNames

\* The tool calls of the model: each name with every map over the
\* properties of its schema, with the map of all names, and, for
\* trigger_dag, with a conf that is the empty object and one that is null.
Calls ==
    UNION {{[name |-> n, arguments |-> Args(S)] : S \in SUBSET Properties(n)}
             \cup {[name |-> n, arguments |-> Args(ArgNames)]} : n \in CallNames}
    \cup {[name |-> "trigger_dag",
           arguments |-> [Args({"dag_id", "conf"}) EXCEPT !["conf"] = v]] :
            v \in {[type |-> "dict", val |-> "{}"], None}}

NoCall == [name |-> "", arguments |-> NoArgs]

\* _execute_tool, tabulated over the access levels and the calls of the model.
Executions ==
    [l \in AccessLevel |-> [c \in Calls |-> _execute_tool(l, c.name, c.arguments)]]

\* AirflowAPIClient(self.config): each call builds a client of its own,
\* whose httpx.AsyncClient is a handle no earlier call has had.
AirflowAPIClient(built) == Cardinality(built) + 1

\* The strings of the model that hold a character outside ASCII (written as
\* Python's repr writes them).
NonAscii == {"jos\\xe9"}

\* A faulty handler that builds its client before the try statement, so that
\* what the constructor raises is not caught.
client_built_in_try_outside == FALSE

\* try: async with AirflowAPIClient(self.config) as client: the constructor
\* runs inside the try statement of handle_call_tool.
client_built_in_try == TRUE

\* AirflowAPIClient.__init__: the message of the exception it raises, or the
\* empty string.  With basic auth, f"{username}:{password}".encode("ascii")
\* raises UnicodeEncodeError when a credential holds a character outside ASCII.
__init__(cfg) ==
    IF cfg.auth_type = "basic"
          /\ (format(cfg.username) \in NonAscii \/ format(cfg.password) \in NonAscii)
    THEN "'ascii' codec can't encode character '\\xe9' in position 3: "
             \o "ordinal not in range(128)"
    ELSE ""

\* A faulty client whose __aexit__ leaves the httpx.AsyncClient open.
__aexit__without_aclose(open, h) == open

\* __aexit__: await self.client.aclose()
__aexit__(open, h) == open \ {h}

\* A faulty handler whose client sends the request of a call twice.
start_call_sends_twice(cfg, open, h, c) ==
    LET step == Executions[cfg.access_level][c]
    IN  IF __init__(cfg) # ""
        THEN [s_pc |-> "idle", clients |-> open, built |-> {}, s_http |-> <<>>,
              content |-> error_content(__init__(cfg))]
        ELSE IF step.kind = "raise"
        THEN [s_pc |-> "idle", clients |-> __aexit__(open \cup {h}, h),
              built |-> {h}, s_http |-> <<>>,
              content |-> error_content(step.msg)]
        ELSE [s_pc |-> "awaiting", clients |-> open \cup {h}, built |-> {h},
              s_http |-> <<[client |-> h, request |-> step.request],
                           [client |-> h, request |-> step.request]>>,
              content |-> <<>>]

\* handle_call_tool up to its wait on the upstream: the client of handle h is
\* built and entered, _execute_tool runs; if it raises, the client is closed
\* (__aexit__) and the error text is returned.  If the constructor raises,
\* no handle has been built; the exception is caught like the others when
\* the constructor runs inside the try, else it leaves the handler.
start_call(cfg, open, h, c) ==
    LET step == Executions[cfg.access_level][c]
    IN  IF __init__(cfg) # ""
        THEN [s_pc |-> IF client_built_in_try THEN "idle" ELSE "crashed",
              clients |-> open, built |-> {}, s_http |-> <<>>,
              content |-> IF client_built_in_try
                          THEN error_content(__init__(cfg)) ELSE <<>>]
        ELSE IF step.kind = "raise"
        THEN [s_pc |-> "idle", clients |-> __aexit__(open \cup {h}, h),
              built |-> {h}, s_http |-> <<>>,
              content |-> error_content(step.msg)]
        ELSE [s_pc |-> "awaiting", clients |-> open \cup {h}, built |-> {h},
              s_http |-> <<[client |-> h, request |-> step.request]>>,
              content |-> <<>>]

(***************************************************************************)
(* config.py and main.py: the configuration of the environment, its        *)
(* validation, and main() up to the end of the process.  A variable of the *)
(* environment is None when it is not set, else the string it holds.       *)
(***************************************************************************)
BASIC == "basic"
JWT == "jwt"
AuthType == {BASIC, JWT}

EnvNames ==
    {"AIRFLOW_BASE_URL", "AIRFLOW_AUTH_TYPE", "AIRFLOW_USERNAME",
     "AIRFLOW_PASSWORD", "AIRFLOW_JWT_TOKEN", "AIRFLOW_ACCESS_LEVEL",
     "AIRFLOW_TIMEOUT"}

\* The environments main() is started with.
Environments ==
    {e \in [EnvNames -> {None, PyStr(""), PyStr("admin"), PyStr("basic"),
                         PyStr("jwt"), PyStr("oauth"), PyStr("full"),
                         PyStr("soon")}] :
        /\ e["AIRFLOW_BASE_URL"] \in {None, PyStr("")}
        /\ e["AIRFLOW_AUTH_TYPE"] \in
              {None, PyStr("basic"), PyStr("jwt"), PyStr("oauth")}
        /\ e["AIRFLOW_USERNAME"] \in {None, PyStr(""), PyStr("admin")}
        /\ e["AIRFLOW_PASSWORD"] \in {None, PyStr(""), PyStr("admin")}
        /\ e["AIRFLOW_JWT_TOKEN"] \in {None, PyStr(""), PyStr("admin")}
        /\ e["AIRFLOW_ACCESS_LEVEL"] \in {None, PyStr("full"), PyStr("admin")}
        /\ e["AIRFLOW_TIMEOUT"] \in {None, PyStr("soon")}}

\* os.getenv(name, default)
os_getenv(e, name, default) ==
    dict_get(IF e[name] = None THEN Missing ELSE e[name], default)

NoConfig ==
    [base_url |-> None, auth_type |-> "", username |-> None, password |-> None,
     jwt_token |-> None, access_level |-> ""]

Failed(msg) == [kind |-> "raise", msg |-> msg, config |-> NoConfig]
Built(c) == [kind |-> "return", msg |-> "", config |-> c]

\* AirflowConfig.from_env: AuthType(...), AccessLevel(...) and int(...) raise
\* ValueError for a value they do not know.
from_env(e) ==
    LET auth_type == os_getenv(e, "AIRFLOW_AUTH_TYPE", PyStr("basic"))
        level == os_getenv(e, "AIRFLOW_ACCESS_LEVEL", PyStr("read_only"))
        timeout == os_getenv(e, "AIRFLOW_TIMEOUT", PyStr("30"))
    IN  IF auth_type.val \notin AuthType
        THEN Failed("'" \o auth_type.val \o "' is not a valid AuthType")
        ELSE IF level.val \notin AccessLevel
        THEN Failed("'" \o level.val \o "' is not a valid AccessLevel")
        ELSE IF timeout.val # "30"
        THEN Failed("invalid literal for int() with base 10: '"
                        \o timeout.val \o "'")
        ELSE Built([base_url |-> os_getenv(e, "AIRFLOW_BASE_URL",
                                           PyStr("http://localhost:8080")),
                    auth_type |-> auth_type.val,
                    username |-> e["AIRFLOW_USERNAME"],
                    password |-> e["AIRFLOW_PASSWORD"],
                    jwt_token |-> e["AIRFLOW_JWT_TOKEN"],
                    access_level |-> level.val])

\* A faulty validate that asks basic auth for a username only.
validate_username_only(c) ==
    IF ~truthy(c.base_url) THEN "AIRFLOW_BASE_URL is required"
    ELSE IF c.auth_type = BASIC /\ ~truthy(c.username)
    THEN "Username and password are required for basic auth"
    ELSE IF c.auth_type = JWT /\ ~truthy(c.jwt_token)
    THEN "JWT token is required for JWT auth"
    ELSE ""

\* AirflowConfig.validate: the message of the ValueError it raises, or the
\* empty string when it returns.
validate(c) ==
    IF ~truthy(c.base_url) THEN "AIRFLOW_BASE_URL is required"
    ELSE IF c.auth_type = BASIC /\ (~truthy(c.username) \/ ~truthy(c.password))
    THEN "Username and password are required for basic auth"
    ELSE IF c.auth_type = JWT /\ ~truthy(c.jwt_token)
    THEN "JWT token is required for JWT auth"
    ELSE ""

(***************************************************************************)
(* fastmcp_server.py: the tool functions registered with FastMCP.  A tool  *)
(* function runs when a tool of its name is registered and the call gives  *)
(* every parameter that has no default.                                    *)
(***************************************************************************)
\* The tools the @mcp.tool decorators register when the module is loaded.
read_tools ==
    {"list_dags", "get_dag", "get_dag_runs", "get_task_instances",
     "get_task_logs", "get_variables", "get_variable", "get_connections",
     "get_health"}

\* register_write_tools(): the tools it registers.
register_write_tools ==
    {"trigger_dag", "pause_dag", "unpause_dag", "set_variable",
     "delete_variable"}

\* main(): if config.access_level != AccessLevel.READ_ONLY:
\* register_write_tools().  The tools registered when mcp.run starts.
main(level) ==
    IF level # READ_ONLY THEN read_tools \cup register_write_tools
    ELSE read_tools

\* The parameters of a tool function that have no default.
required_parameters(name) ==
    IF name \in {"get_dag", "get_dag_runs", "trigger_dag", "pause_dag",
                 "unpause_dag"}
    THEN {"dag_id"}
    ELSE IF name = "get_task_instances" THEN {"dag_id", "dag_run_id"}
    ELSE IF name = "get_task_logs" THEN {"dag_id", "dag_run_id", "task_id"}
    ELSE IF name \in {"get_variable", "delete_variable"} THEN {"key"}
    ELSE IF name = "set_variable" THEN {"key", "value"}
    ELSE {}

\* async with AirflowAPIClient(config) as client: return await client...
with_client(cfg, request) ==
    IF __init__(cfg) # "" THEN Raises("UnicodeEncodeError", __init__(cfg))
    ELSE Awaits(request)

\* The body of a write tool: it raises under read_only before it builds the
\* client.
write_tool(cfg, request) ==
    IF cfg.access_level = READ_ONLY
    THEN Raises("ValueError", "Operation not permitted in read-only mode")
    ELSE with_client(cfg, request)

\* The body of the tool function `name`, called with the arguments a; a
\* parameter that is not given has the default of the signature.
tool(cfg, name, a) ==
    LET limit == get(a, "limit", PyInt("100"))
        offset == get(a, "offset", PyInt("0"))
    IN  IF name = "list_dags" THEN with_client(cfg, get_dags(limit, offset))
        ELSE IF name = "get_dag" THEN with_client(cfg, get_dag(a["dag_id"]))
        ELSE IF name = "get_dag_runs"
        THEN with_client(cfg, get_dag_runs(a["dag_id"], limit, offset))
        ELSE IF name = "get_task_instances"
        THEN with_client(cfg, get_task_instances(a["dag_id"], a["dag_run_id"],
                                                 limit, offset))
        ELSE IF name = "get_task_logs"
        THEN with_client(cfg, get_task_instance_logs(
                 a["dag_id"], a["dag_run_id"], a["task_id"],
                 get(a, "task_try_number", PyInt("1"))))
        ELSE IF name = "get_variables"
        THEN with_client(cfg, get_variables(limit, offset))
        ELSE IF name = "get_variable"
        THEN with_client(cfg, get_variable(a["key"]))
        ELSE IF name = "get_connections"
        THEN with_client(cfg, get_connections(limit, offset))
        ELSE IF name = "get_health" THEN with_client(cfg, get_health)
        ELSE IF name = "trigger_dag"
        THEN write_tool(cfg, trigger_dag(a["dag_id"], get(a, "conf", None)))
        ELSE IF name = "pause_dag"
        THEN write_tool(cfg, pause_dag(a["dag_id"]))
        ELSE IF name = "unpause_dag"
        THEN write_tool(cfg, unpause_dag(a["dag_id"]))
        ELSE IF name = "set_variable"
        THEN write_tool(cfg, set_variable(a["key"], a["value"],
                                          get(a, "description", PyStr(""))))
        ELSE write_tool(cfg, delete_variable(a["key"]))

\* The requests a call of the tool c.name issues: none when no tool of that
\* name is registered, when a parameter without default is not given, and
\* when the body raises.
call_registered_tool(cfg, registered, c) ==
    IF c.name \notin registered THEN <<>>
    ELSE IF \E k \in required_parameters(c.name) : c.arguments[k] = Missing
    THEN <<>>
    ELSE LET step == tool(cfg, c.name, c.arguments)
         IN  IF step.kind = "raise" THEN <<>> ELSE <<step.request>>

(***************************************************************************)
(* The specifications.  EngineSpec is working_mcp_server.py reading its    *)
(* input; ServerSpec is server.py handling tools/list and tools/call.      *)
(***************************************************************************)
EngineIdle ==
    /\ pc = "read"
    /\ line = NoLine
    /\ out = <<>>
    /\ http = <<>>
    /\ pending = NoPending
    /\ nread = 0
    /\ seen = {}

ServerIdle ==
    /\ s_pc = "idle"
    /\ call = NoCall
    /\ clients = {}
    /\ s_http = <<>>
    /\ content = <<>>
    /\ listed = <<>>
    /\ ncalls = 0
    /\ opened = {}
    /\ s_reply = NoServerReply
    /\ failed = {}

FastIdle ==
    /\ f_pc = "start"
    /\ mcp = read_tools
    /\ f_call = NoCall
    /\ f_http = <<>>

NoEnv == [n \in EnvNames |-> None]

MainIdle ==
    /\ config = NoConfig
    /\ m_pc = "start"
    /\ exit_status = ""
    /\ served = 0
    /\ m_out = <<>>

EngineInit ==
    /\ EngineIdle
    /\ access_level = READ_ONLY
    /\ ServerIdle
    /\ env = NoEnv
    /\ MainIdle
    /\ FastIdle

\* line = readline(); ...; message = json.loads(line);
\* response = await self.handle_message(message); print(...)
ReadLine ==
    /\ pc = "read"
    /\ nread < MaxLines
    /\ \E l \in Lines :
         LET next == Iterations[l]
         IN  /\ line' = l
             /\ pc' = next.pc
             /\ out' = next.out
             /\ http' = next.http
             /\ pending' = next.pending
    /\ nread' = nread + 1
    /\ seen' = IF nread = 0 THEN seen ELSE seen \cup {LineKind(line, out)}
    /\ UNCHANGED <<server_vars, main_vars, fast_vars>>

\* urlopen returns or raises inside make_request; handle_message builds the
\* response of the tools/call and run() prints it.
UpstreamReturn ==
    /\ pc = "upstream"
    /\ \E reply \in Replies :
         LET result == make_request(pending.endpoint, reply)
             response == tools_call_response(pending.msg_id, result)
         IN  /\ out' = out \o print_response(response)
             /\ pending' = [pending EXCEPT !.active = FALSE, !.reply = reply]
    /\ pc' = "read"
    /\ UNCHANGED <<line, http, nread, seen>>
    /\ UNCHANGED <<server_vars, main_vars, fast_vars>>

EngineNext == ReadLine \/ UpstreamReturn

EngineSpec == EngineInit /\ [][EngineNext]_vars

\* The configurations the server is created with: they have passed validate.
ServerConfigs ==
    {[base_url |-> PyStr("http://localhost:8080"), auth_type |-> a,
      username |-> PyStr(u), password |-> PyStr("admin"),
      jwt_token |-> PyStr("admin"), access_level |-> l] :
        a \in AuthType, u \in {"admin"} \cup NonAscii, l \in AccessLevel}

ServerInit ==
    /\ config \in ServerConfigs
    /\ validate(config) = ""
    /\ access_level = config.access_level
    /\ ServerIdle
    /\ EngineIdle
    /\ env = NoEnv
    /\ m_pc = "start"
    /\ exit_status = ""
    /\ served = 0
    /\ m_out = <<>>
    /\ FastIdle

\* tools/list: handle_list_tools()
ListTools ==
    /\ s_pc = "idle"
    /\ listed' = handle_list_tools(access_level)
    /\ UNCHANGED <<access_level, s_pc, call, clients, s_http, content, ncalls,
                   opened, s_reply, failed>>
    /\ UNCHANGED <<engine_vars, main_vars, fast_vars>>

\* tools/call: handle_call_tool(name, arguments), up to the wait on the
\* upstream or, when _execute_tool raises, to its return.
CallTool ==
    /\ s_pc = "idle"
    /\ ncalls < MaxCalls
    /\ \E c \in Calls :
         LET h == AirflowAPIClient(opened)
             next == start_call(config, clients, h, c)
         IN  /\ call' = c
             /\ opened' = opened \cup next.built
             /\ s_reply' = NoServerReply
             /\ s_pc' = next.s_pc
             /\ clients' = next.clients
             /\ s_http' = next.s_http
             /\ content' = next.content
             /\ failed' = IF next.s_pc = "awaiting" THEN failed
                          ELSE failed \cup {ncalls + 1}
    /\ ncalls' = ncalls + 1
    /\ UNCHANGED <<access_level, listed>>
    /\ UNCHANGED <<engine_vars, main_vars, fast_vars>>

\* The upstream answers (or the transport fails): _request raises or returns
\* the decoded body, the client is closed, and the content is returned.
UpstreamResponds ==
    /\ s_pc = "awaiting"
    /\ \E reply \in Upstream(s_http[1].request) :
         LET res == request_outcome(s_http[1].request, reply)
         IN  /\ content' = IF res.kind = "raise" THEN error_content(res.msg)
                            ELSE result_content(res.result)
             /\ failed' = IF res.kind = "raise" THEN failed \cup {ncalls}
                          ELSE failed
             /\ s_reply' = reply
    /\ clients' = __aexit__(clients, s_http[1].client)
    /\ s_pc' = "idle"
    /\ UNCHANGED <<access_level, call, s_http, listed, ncalls, opened>>
    /\ UNCHANGED <<engine_vars, main_vars, fast_vars>>

ServerNext == ListTools \/ CallTool \/ UpstreamResponds

ServerSpec == ServerInit /\ [][ServerNext]_vars

MainInit ==
    /\ env \in Environments
    /\ MainIdle
    /\ access_level = READ_ONLY
    /\ ServerIdle
    /\ EngineIdle
    /\ FastIdle

\* except Exception as e: logger.error(...); sys.exit(1).  The log goes to
\* the error stream, not to the protocol stream.
sys_exit(status) ==
    /\ m_pc' = "exited"
    /\ exit_status' = status

\* config = AirflowConfig.from_env()
LoadConfig ==
    /\ m_pc = "start"
    /\ LET built == from_env(env)
       IN  IF built.kind = "raise"
           THEN sys_exit("1") /\ UNCHANGED config
           ELSE /\ config' = built.config
                /\ m_pc' = "loaded"
                /\ UNCHANGED exit_status
    /\ UNCHANGED <<env, served, m_out>>
    /\ UNCHANGED <<engine_vars, server_vars, fast_vars>>

\* config.validate()
ValidateConfig ==
    /\ m_pc = "loaded"
    /\ IF validate(config) # ""
       THEN sys_exit("1")
       ELSE m_pc' = "validated" /\ UNCHANGED exit_status
    /\ UNCHANGED <<env, config, served, m_out>>
    /\ UNCHANGED <<engine_vars, server_vars, fast_vars>>

\* mcp_server = AirflowMCPServer(config); server = mcp_server.get_server()
CreateServer ==
    /\ m_pc = "validated"
    /\ m_pc' = "created"
    /\ access_level' = config.access_level
    /\ UNCHANGED <<env, config, exit_status, served, m_out>>
    /\ UNCHANGED <<s_pc, call, clients, s_http, content, listed, ncalls, opened,
                   s_reply, failed>>
    /\ UNCHANGED <<engine_vars, fast_vars>>

\* asyncio.run(run_server()): run_server enters the context of stdio_server
\* and leaves it at once (its body is `pass`), without running the server on
\* the streams; main() then returns, or the exception that leaving the
\* context raised ends the process through sys.exit(1).
RunServer ==
    /\ m_pc = "created"
    /\ \E status \in {"0", "1"} : sys_exit(status)
    /\ UNCHANGED <<env, config, served, m_out>>
    /\ UNCHANGED <<engine_vars, server_vars, fast_vars>>

MainNext == LoadConfig \/ ValidateConfig \/ CreateServer \/ RunServer

MainSpec == MainInit /\ [][MainNext]_vars

\* fastmcp_server.py main(), past from_env and validate: the write tools are
\* registered unless the access level is read_only, and mcp.run serves.
FastMain ==
    /\ f_pc = "start"
    /\ mcp' = main(config.access_level)
    /\ f_pc' = "idle"
    /\ UNCHANGED <<f_call, f_http>>
    /\ UNCHANGED <<engine_vars, server_vars, main_vars>>

\* A tools/call reaches FastMCP: the tool function runs up to its wait on
\* the upstream, or the call ends without a request.
FastCallTool ==
    /\ f_pc = "idle"
    /\ \E c \in Calls :
         /\ f_call' = c
         /\ f_http' = call_registered_tool(config, mcp, c)
         /\ f_pc' = IF f_http' = <<>> THEN "idle" ELSE "awaiting"
    /\ UNCHANGED mcp
    /\ UNCHANGED <<engine_vars, server_vars, main_vars>>

\* The upstream answers, or the transport fails: the tool function ends.
FastUpstreamResponds ==
    /\ f_pc = "awaiting"
    /\ f_pc' = "idle"
    /\ UNCHANGED <<mcp, f_call, f_http>>
    /\ UNCHANGED <<engine_vars, server_vars, main_vars>>

FastNext == FastMain \/ FastCallTool \/ FastUpstreamResponds

\* One of the three entry points runs: the engine (which reads no
\* AirflowConfig), the server of server.py, or the FastMCP server.
EntryPointsInit == EngineInit \/ ServerInit

EntryPointsNext ==
    \/ config = NoConfig /\ EngineNext
    \/ config # NoConfig /\ f_pc = "start" /\ ServerNext
    \/ config # NoConfig /\ ncalls = 0 /\ listed = <<>> /\ FastNext

EntryPointsSpec == EntryPointsInit /\ [][EntryPointsNext]_vars

(***************************************************************************)
(* The line-protocol engine: what the claims speak of.                     *)
(***************************************************************************)
\* The line read last is a JSON object (a message).
IsMessage(l) == l.kind = "json" /\ l.doc.type = "object"

\* The message has an id member (of any value, null included).
HasId(l) == IsMessage(l) /\ l.doc.id # ""

\* A request as the protocol defines it: a message whose id is a string, a
\* number or a boolean (JSON-RPC 2.0 and MCP rule out null as a request id;
\* the null id is the matter of C18).
IsRequest(l) == HasId(l) /\ l.doc.id # "null"

KnownMethods ==
    {Quote("initialize"), Quote("ping"), Quote("tools/list"), Quote("tools/call")}

\* A request whose params have the shape the method takes: for tools/call an
\* object whose arguments, when given, are an object.
WellFormedRequest(l) ==
    /\ IsRequest(l)
    /\ l.doc.method = Quote("tools/call") =>
          /\ l.doc.params.type = "object"
          /\ l.doc.params.arguments.type \in {"", "object"}

\* run() is not in the middle of the line: it waits for the next line or has
\* left the loop.
LineDone == nread > 0 /\ pc # "upstream"

\* The id of an output line is the id of the request line, type and value.
SameId(o, l) == json_loads_scalar(o.id) = json_loads_scalar(l.doc.id)

\* C2: a line that parses to a message without an id member, whatever its
\* method and params, has no line written to the output for it.
C2_NoOutputWithoutId ==
    (line.kind = "json" /\ line.doc.id = "") => out = <<>>

C2_Witness ==
    /\ LineDone /\ pc = "read"
    /\ IsMessage(line) /\ line.doc.id = ""
    /\ line.doc.method = Quote("tools/call")
    /\ line.doc.params.name = Quote("list_dags")
    /\ out = <<>>

C4_ExactlyOneResponsePerRequest ==
    LineDone =>
        IF HasId(line) THEN Len(out) = 1
        ELSE (line.kind \in {"json", "garbage"} => Len(out) = 0)

\* C5: a line that is no JSON produces no output and does not end the loop;
\* a well-formed request on a later line still receives its response.
C5_MalformedLineIsSkipped ==
    /\ line.kind = "garbage" => (out = <<>> /\ pc = "read")
    /\ ("garbage" \in seen /\ WellFormedRequest(line) /\ LineDone) =>
          (pc = "read" /\ Len(out) = 1 /\ SameId(out[1], line))

C5_Witness ==
    /\ "garbage" \in seen
    /\ IsRequest(line) /\ line.doc.method = Quote("ping")
    /\ Len(out) = 1 /\ out[1].result.kind = "empty"

\* C6 (as claimed): the loop ends only on the end of the stream or a fault of
\* the stream, never because of what a line holds.
C6_LoopEndsOnlyOnEndOfStream ==
    pc = "stopped" => line.kind \in {"eof", "ioerror"}


\* The text content of an output line, when it is a result that holds one.
IsTextResult(o) ==
    /\ o.jsonrpc = "2.0"
    /\ o.member = "result"
    /\ o.result.kind = "content"
    /\ o.error = NoError

ErrorText(msg) == "{\n  \"error\": \"" \o msg \o "\"\n}"

\* C7: a tools/call request is answered with a result envelope that holds
\* text content, never with an error envelope: every line written for it is
\* such a result; a well-formed call has exactly one; an unknown tool name,
\* a failing upstream request and a transport failure are error text in it.
C7_ToolCallAnsweredWithResult ==
    (IsRequest(line) /\ line.doc.method = Quote("tools/call")) =>
        /\ \A k \in 1..Len(out) : IsTextResult(out[k])
        /\ (WellFormedRequest(line) /\ LineDone) => (pc = "read" /\ Len(out) = 1)
        /\ (Len(out) = 1 /\ pending.reply.outcome \notin {"", "ok"}) =>
              out[1].result.text =
                  ErrorText("API request failed: " \o pending.reply.exc)
        /\ \A s \in StringValues \ {"list_dags", "get_health"} :
              (Len(out) = 1 /\ line.doc.params.name = Quote(s)) =>
                  out[1].result.text = ErrorText("Unknown tool: " \o s)

C7_Witness ==
    /\ LineDone
    /\ IsRequest(line) /\ line.doc.method = Quote("tools/call")
    /\ line.doc.params.name = Quote("list_dags")
    /\ pending.reply.outcome = "url_error"
    /\ Len(out) = 1 /\ IsTextResult(out[1])

\* C8: a request whose method is none of initialize, ping, tools/list and
\* tools/call is answered with the JSON-RPC error -32601 whose message is
\* "Method not found: " and the method name, and the loop goes on.
C8_UnknownMethodIsMethodNotFound ==
    (IsRequest(line) /\ line.doc.method \notin KnownMethods) =>
        /\ pc = "read"
        /\ Len(out) = 1
        /\ SameId(out[1], line)
        /\ out[1].jsonrpc = "2.0"
        /\ out[1].member = "error"
        /\ out[1].result = NoResult
        /\ out[1].error.code = -32601
        /\ \A s \in StringValues :
              line.doc.method = Quote(s) =>
                  out[1].error.message = "Method not found: " \o s
        /\ line.doc.method = "" =>
              out[1].error.message = "Method not found: None"

C8_Witness ==
    /\ IsRequest(line) /\ line.doc.method = Quote("foo/bar")
    /\ line.doc.id = "7"
    /\ out = <<[jsonrpc |-> "2.0", id |-> "7", member |-> "error",
                result |-> NoResult,
                error |-> [code |-> -32601,
                           message |-> "Method not found: foo/bar"]]>>
    /\ pc = "read"

\* C9: a ping request is answered with an empty result object, whatever
\* lines came before it (requests, notifications, failed tool calls, lines
\* that are no JSON).
C9_PingAnsweredWithEmptyResult ==
    (IsRequest(line) /\ line.doc.method = Quote("ping")) =>
        /\ pc = "read"
        /\ Len(out) = 1
        /\ SameId(out[1], line)
        /\ out[1].jsonrpc = "2.0"
        /\ out[1].member = "result"
        /\ out[1].result = [kind |-> "empty", info |-> <<>>, tools |-> <<>>,
                            text |-> ""]
        /\ out[1].error = NoError

C9_Witness ==
    /\ {"garbage", "failed_call"} \subseteq seen
    /\ IsRequest(line) /\ line.doc.method = Quote("ping")
    /\ Len(out) = 1 /\ out[1].result.kind = "empty"


\* C11: messages are handled strictly one at a time.  A tool call is in
\* progress exactly while run() waits for the upstream, and then it is the
\* only one; the next line is read only when no call is in progress; the
\* upstream's answer writes exactly one line, for the one call in progress,
\* and every line written answers the line read last, so the response lines
\* come in the order of their requests.
C11_OneMessageAtATime ==
    /\ [](/\ pending.active <=> pc = "upstream"
          /\ Len(http) <= 1
          /\ pending.active => Len(http) = 1 /\ out = <<>>)
    /\ [][/\ nread' # nread => (pc = "read" /\ ~pending.active)
          /\ (nread' = nread /\ out' # out) =>
                /\ pending.active /\ ~pending'.active
                /\ line' = line
                /\ Len(out') = Len(out) + 1
                /\ out'[Len(out')].id = json_dumps_scalar(pending.msg_id)
          /\ \A k \in 1..Len(out') : SameId(out'[k], line')]_vars

C11_Witness ==
    /\ nread = 3
    /\ {"failed_call", "request"} \subseteq seen
    /\ line.doc.method = Quote("tools/call")
    /\ line.doc.params.name = Quote("get_health")
    /\ pc = "read" /\ Len(out) = 1 /\ pending.reply.outcome = "ok"

\* The params of the message have the shape its method takes.
ParamsFit(l) ==
    l.doc.method = Quote("tools/call") =>
        /\ l.doc.params.type = "object"
        /\ l.doc.params.arguments.type \in {"", "object"}

\* C18 (as claimed): a message is a request if and only if it has an id
\* member: with an id of any JSON scalar value (a number, 0 included, a
\* string, the empty one included, false, null) it receives one response
\* that echoes the id, and only without an id member it receives none.
C18_RequestIffIdPresent ==
    (IsMessage(line) /\ ParamsFit(line) /\ LineDone) =>
        /\ HasId(line) <=> Len(out) = 1
        /\ \A k \in 1..Len(out) : out[k].id = line.doc.id

\* C20 (as claimed): a tools/call of list_dags whose arguments give a limit
\* n and no offset issues one GET on /dags whose query string carries both
\* limit=n and offset=0.
C20_ListDagsCarriesOffset ==
    (/\ IsRequest(line)
     /\ line.doc.method = Quote("tools/call")
     /\ line.doc.params.type = "object"
     /\ line.doc.params.name = Quote("list_dags")
     /\ line.doc.params.arguments.type = "object"
     /\ line.doc.params.arguments.limit = "5"
     /\ line.doc.params.arguments.offset = "") =>
        /\ Len(http) = 1
        /\ http[1].verb = "GET"
        /\ http[1].url \in {base_url \o "/dags?limit=5&offset=0",
                            base_url \o "/dags?offset=0&limit=5"}

(***************************************************************************)
(* The registry and the dispatcher of server.py: what the claims speak of. *)
(***************************************************************************)
ReadToolNames ==
    <<"list_dags", "get_dag", "get_dag_runs", "get_task_instances",
      "get_task_logs", "get_variables", "get_variable", "get_connections",
      "get_health">>

WriteToolNames ==
    <<"trigger_dag", "pause_dag", "unpause_dag", "set_variable",
      "delete_variable">>

Range(q) == {q[i] : i \in 1..Len(q)}

NamesOf(descriptors) == [i \in 1..Len(descriptors) |-> descriptors[i].name]

\* The last call reached _execute_tool: the constructor of its client
\* returned, so that the dispatcher ran.
Dispatched == ncalls > 0 /\ __init__(config) = ""

\* C1: under read_only, a call of a write-class tool, whatever its argument
\* map, issues no upstream HTTP request and, once dispatched, returns one
\* text content item whose text says that the operation is not permitted in
\* read-only mode.
C1_WriteToolDeniedUnderReadOnly ==
    (access_level = READ_ONLY /\ call.name \in Range(WriteToolNames)) =>
        /\ s_pc = "idle"
        /\ s_http = <<>>
        /\ Dispatched =>
              content =
                <<TextContent("Error: Operation not permitted in read-only mode")>>

C1_Witness ==
    /\ access_level = READ_ONLY
    /\ call = [name |-> "trigger_dag", arguments |-> Args({"dag_id"})]
    /\ s_http = <<>>
    /\ content =
          <<TextContent("Error: Operation not permitted in read-only mode")>>

\* C10: handle_list_tools returns, under read_only, exactly the nine read
\* descriptors in their fixed order and, under full, those nine followed by
\* exactly the five write descriptors; the names are unique in both cases.
C10_RegistryFollowsAccessLevel ==
    listed # <<>> =>
        /\ NamesOf(listed) =
              IF access_level = READ_ONLY THEN ReadToolNames
              ELSE ReadToolNames \o WriteToolNames
        /\ \A i, j \in 1..Len(listed) :
              listed[i].name = listed[j].name => i = j

C10_Witness ==
    /\ access_level = FULL
    /\ Len(listed) = 14
    /\ listed[10].name = "trigger_dag"

\* C12: a call whose tool name is none of the fourteen known names fails
\* with the unknown-tool error that names the tool: no upstream request is
\* issued and the content of the dispatched call is the one text
\* "Error: Unknown tool: <name>".
C12_UnknownToolIsErrorText ==
    (ncalls > 0 /\ call.name \notin Range(ReadToolNames \o WriteToolNames)) =>
        /\ s_pc = "idle"
        /\ s_http = <<>>
        /\ clients = {}
        /\ Dispatched =>
              content = <<TextContent("Error: Unknown tool: " \o call.name)>>

C12_Witness ==
    /\ access_level = FULL
    /\ call = [name |-> "LIST_DAGS", arguments |-> Args(ArgNames)]
    /\ s_http = <<>>
    /\ content = <<TextContent("Error: Unknown tool: LIST_DAGS")>>

\* The descriptor of a tool, its required list, and whether the access level
\* lets the dispatcher serve it.
Descriptor(name) == CHOOSE t \in Range(AllTools) : t.name = name

Permitted(level, name) ==
    name \in Range(ReadToolNames)
        \/ (name \in Range(WriteToolNames) /\ level # READ_ONLY)

MissingRequired(c) ==
    {k \in Range(Descriptor(c.name).required) : c.arguments[k] = Missing}

\* C13: a call of a permitted tool whose argument map lacks a name of the
\* descriptor's required list fails before any upstream request is issued,
\* and the failure is one text content that begins "Error: " (in a
\* dispatched call the name of a missing argument in quotes follows).
C13_MissingArgumentIsErrorText ==
    (/\ ncalls > 0
     /\ call.name \in ToolNames
     /\ Permitted(access_level, call.name)
     /\ MissingRequired(call) # {}) =>
        /\ s_pc = "idle"
        /\ s_http = <<>>
        /\ clients = {}
        /\ Len(content) = 1
        /\ content[1].type = "text"
        /\ ~Dispatched => content[1].text = "Error: " \o __init__(config)
        /\ Dispatched =>
              \E k \in MissingRequired(call) :
                  content = <<TextContent("Error: " \o "'" \o k \o "'")>>

C13_Witness ==
    /\ access_level = FULL
    /\ call = [name |-> "set_variable", arguments |-> Args({"key", "description"})]
    /\ s_http = <<>>
    /\ content = <<TextContent("Error: 'value'")>>

\* The argument mapping the spec speaks of: for each tool the path, as
\* literal pieces and argument names, and the arguments that go to the query
\* string and to the JSON body.
Lit(text) == [lit |-> text, arg |-> ""]
Arg(k) == [lit |-> "", arg |-> k]

PathTemplate(name) ==
    IF name \in {"list_dags"} THEN <<Lit("/dags")>>
    ELSE IF name \in {"get_dag", "pause_dag", "unpause_dag"}
    THEN <<Lit("/dags/"), Arg("dag_id")>>
    ELSE IF name \in {"get_dag_runs", "trigger_dag"}
    THEN <<Lit("/dags/"), Arg("dag_id"), Lit("/dagRuns")>>
    ELSE IF name = "get_task_instances"
    THEN <<Lit("/dags/"), Arg("dag_id"), Lit("/dagRuns/"), Arg("dag_run_id"),
           Lit("/taskInstances")>>
    ELSE IF name = "get_task_logs"
    THEN <<Lit("/dags/"), Arg("dag_id"), Lit("/dagRuns/"), Arg("dag_run_id"),
           Lit("/taskInstances/"), Arg("task_id"), Lit("/logs/"),
           Arg("task_try_number")>>
    ELSE IF name \in {"get_variables", "set_variable"} THEN <<Lit("/variables")>>
    ELSE IF name \in {"get_variable", "delete_variable"}
    THEN <<Lit("/variables/"), Arg("key")>>
    ELSE IF name = "get_connections" THEN <<Lit("/connections")>>
    ELSE <<Lit("/health")>>

QueryArguments(name) == Properties(name) \cap {"limit", "offset"}

BodyArguments(name) ==
    IF name = "set_variable" THEN {"key", "value", "description"}
    ELSE IF name = "trigger_dag" THEN {"conf"}
    ELSE {}

\* The default the descriptor declares for an argument, as the request shows
\* it (the text of the decoded JSON value).
HasDefault(name, k) == \E d \in Descriptor(name).defaults : d[1] = k

DeclaredDefault(name, k) ==
    format(json_loads_scalar(
        (CHOOSE d \in Descriptor(name).defaults : d[1] = k)[2]))

\* What the request is to carry for the argument k of the call c: the value
\* given, or the declared default when the map has no k.
Carried(c, k) ==
    IF c.arguments[k] # Missing THEN format(c.arguments[k])
    ELSE DeclaredDefault(c.name, k)

RECURSIVE PathOf(_, _)
PathOf(c, template) ==
    IF template = <<>> THEN ""
    ELSE (IF Head(template).arg = "" THEN Head(template).lit
          ELSE Carried(c, Head(template).arg))
         \o PathOf(c, Tail(template))

\* The call passes the checks of the dispatcher: its tool is permitted and
\* its argument map has every required argument.
Served(level, c) ==
    /\ c.name \in ToolNames
    /\ Permitted(level, c.name)
    /\ MissingRequired(c) = {}

EmptyConf(c) ==
    c.arguments["conf"] \in {[type |-> "dict", val |-> "{}"], None}

C15_HandleScopedToCall ==
    /\ [](/\ Cardinality(opened) = (IF __init__(config) = "" THEN ncalls ELSE 0)
          /\ clients \subseteq opened
          /\ s_pc = "idle" => clients = {}
          /\ s_pc = "awaiting" =>
                (Len(s_http) = 1 /\ clients = {s_http[1].client}))
    /\ [][(ncalls' # ncalls /\ __init__(config) = "") =>
            /\ clients = {}
            /\ \E h \in opened' \ opened :
                  /\ opened' = opened \cup {h}
                  /\ clients' \subseteq {h}
                  /\ \A k \in 1..Len(s_http') : s_http'[k].client = h]_vars

C15_Witness ==
    /\ ncalls = 2
    /\ opened = {1, 2}
    /\ s_pc = "idle" /\ clients = {}
    /\ call.name = "get_dag" /\ Len(s_http) = 1 /\ s_http[1].client = 2
    /\ content = <<TextContent("Error: All connection attempts failed")>>

\* An argument map cut down to the names of S, and one with the name k
\* taken out.
Restricted(arguments, S) ==
    [a \in ArgNames |-> IF a \in S THEN arguments[a] ELSE Missing]

Without(arguments, k) == [arguments EXCEPT ![k] = Missing]

\* C16: for every tool the registry lists, the dispatcher reads exactly the
\* properties of the tool's input schema (names outside the schema change
\* nothing, every property given changes the request), the arguments whose
\* absence makes the call fail are exactly the schema's required list, and
\* an optional argument that is absent acts as the default the schema
\* declares for it (as being left out of the request when it declares none).
\* The request of a dispatched call is the one the dispatcher computes.
C16_SchemaMatchesDispatcher ==
    (ncalls > 0 /\ listed # <<>>) =>
        \A t \in Range(listed) :
            t.name = call.name =>
                LET a == call.arguments
                    run(x) == _execute_tool(access_level, t.name, x)
                IN  /\ run(a) = run(Restricted(a, t.properties))
                    /\ (Dispatched /\ run(a).kind = "request") =>
                          (Len(s_http) = 1 /\ s_http[1].request = run(a).request)
                    /\ \A k \in t.properties :
                          (a[k] = ArgValue[k] /\ run(a).kind = "request") =>
                              run(Without(a, k)) # run(a)
                    /\ \A k \in ArgNames :
                          (run(Without(Args(ArgNames), k)).kind = "raise")
                              <=> k \in Range(t.required)
                    /\ \A k \in t.properties \ Range(t.required) :
                          a[k] = Missing =>
                              IF HasDefault(t.name, k)
                              THEN \E d \in t.defaults :
                                     /\ d[1] = k
                                     /\ run(a) = run([a EXCEPT
                                                        ![k] = json_loads_scalar(d[2])])
                              ELSE run(a).kind = "request" =>
                                     \A m \in run(a).request.params
                                               \cup run(a).request.json.members :
                                         m[1] # k

C16_Witness ==
    /\ access_level = FULL
    /\ Len(listed) = 14
    /\ call = [name |-> "set_variable", arguments |-> Args({"key", "value"})]
    /\ Len(s_http) = 1
    /\ s_http[1].request.json.members =
          {<<"key", "k">>, <<"value", "v">>, <<"description", "">>}

(***************************************************************************)
(* The start of main(): what the claims speak of.                          *)
(***************************************************************************)
Empty(v) == v = None \/ v = PyStr("")

\* The auth mode the environment selects (basic when none is set).
AuthMode(e) ==
    IF e["AIRFLOW_AUTH_TYPE"] = None THEN "basic" ELSE e["AIRFLOW_AUTH_TYPE"].val

\* The environment lacks the credentials its auth mode requires.
LacksCredentials(e) ==
    \/ AuthMode(e) = "basic"
          /\ (Empty(e["AIRFLOW_USERNAME"]) \/ Empty(e["AIRFLOW_PASSWORD"]))
    \/ AuthMode(e) = "jwt" /\ Empty(e["AIRFLOW_JWT_TOKEN"])

\* C17: when the configuration lacks the credentials its auth mode requires
\* (basic: a username and a password that are not empty; token mode: a token
\* that is not empty), main() never gets past the validation: no server is
\* created, no request is read, nothing is written to the protocol stream,
\* main() goes on until the process has ended, and it ends with status 1.
C17_MissingCredentialsFailStartup ==
    LacksCredentials(env) =>
        /\ m_pc \in {"start", "loaded", "exited"}
        /\ served = 0
        /\ m_out = <<>>
        /\ m_pc # "exited" => ENABLED MainNext
        /\ m_pc = "exited" => exit_status = "1"

C17_Witness ==
    /\ AuthMode(env) = "basic"
    /\ env["AIRFLOW_USERNAME"] = PyStr("admin")
    /\ env["AIRFLOW_PASSWORD"] = PyStr("")
    /\ config.username = PyStr("admin")
    /\ m_pc = "exited" /\ exit_status = "1"
    /\ served = 0 /\ m_out = <<>>

\* C19 (as claimed): whenever the upstream answers the request of a tool
\* call with a 2xx status, the content of the call is the one text that is
\* the JSON serialization of the body of the answer, and not an error
\* string; for every tool, delete_variable included.
C19_SuccessIsJsonOfBody ==
    (s_pc = "idle" /\ s_reply.outcome = "response"
        /\ s_reply.status >= 200 /\ s_reply.status <= 299) =>
        /\ s_reply.json_body
        /\ content =
              <<TextContent("{\n  " \o Quote(s_reply.key) \o ": "
                                \o s_reply.value \o "\n}")>>
        /\ content # <<TextContent("Error: Expecting value: line 1 column 1 (char 0)")>>

\* C21: no failure during a tool call leaves handle_call_tool.  The handler
\* always comes back; a call that has ended returned exactly one text
\* content; when the constructor of the client raised, when the transport
\* failed and when the upstream answered with a status outside 2xx, the
\* text is "Error: " and the message of the exception; and a call that comes
\* after a failed one is accepted and handled as a first call would be.
C21_NoFailureEscapes ==
    /\ [](/\ s_pc \in {"idle", "awaiting"}
          /\ (s_pc = "idle" /\ ncalls > 0) =>
                /\ Len(content) = 1
                /\ content[1].type = "text"
                /\ __init__(config) # "" =>
                      content[1].text = "Error: " \o __init__(config)
                /\ s_reply.outcome = "transport" =>
                      content[1].text = "Error: " \o s_reply.exc
                /\ (s_reply.outcome = "response"
                        /\ (s_reply.status < 200 \/ s_reply.status > 299)) =>
                      content[1].text =
                          "Error: " \o s_reply.exc \o " for url '"
                              \o s_http[1].request.url \o "'"
          /\ (s_pc = "idle" /\ ncalls < MaxCalls) => ENABLED CallTool)
    /\ [][(ncalls' # ncalls /\ failed # {}) =>
            LET first == start_call(config, {}, AirflowAPIClient(opened), call')
            IN  /\ s_pc' = first.s_pc
                /\ s_http' = first.s_http
                /\ content' = first.content]_vars

C21_Witness ==
    /\ ncalls = 2
    /\ failed = {1}
    /\ s_pc = "idle"
    /\ call.name = "get_health"
    /\ s_reply.status = 200
    /\ content = <<TextContent("{\n  \"dags\": []\n}")>>

\* C22: a tool call issues at most one upstream request: exactly one when it
\* was dispatched and passes the permission, tool-name and required-argument
\* checks, none otherwise.  An answer, failure or not, is followed by no
\* further request of the call (no retry), and the request of a call is the
\* one the dispatcher computes from the tool name, the argument map and the
\* configuration: what earlier calls did has no part in it.
C22_OneRequestPerCall ==
    /\ [](/\ Len(s_http) <= 1
          /\ ncalls > 0 =>
                (Len(s_http) = 1 <=> (Dispatched /\ Served(access_level, call))))
    /\ [][ncalls' = ncalls => s_http' = s_http]_vars
    /\ [][ncalls' # ncalls =>
            LET step == _execute_tool(config.access_level, call'.name,
                                      call'.arguments)
            IN  IF __init__(config) = "" /\ step.kind = "request"
                THEN /\ Len(s_http') = 1
                     /\ s_http'[1].request = step.request
                ELSE s_http' = <<>>]_vars

C22_Witness ==
    /\ ncalls = 2
    /\ failed = {1, 2}
    /\ s_pc = "idle"
    /\ s_reply.outcome = "transport"
    /\ call = [name |-> "list_dags", arguments |-> NoArgs]
    /\ Len(s_http) = 1
    /\ s_http[1].request.params = {<<"limit", "100">>, <<"offset", "0">>}

\* C23 (as claimed): on a stream that ends without a fault, the loop ends by
\* reading the end of the stream and by nothing else, so that every line
\* before the end has been handled; an empty or whitespace-only line gives
\* no output, issues no request and leaves the loop reading.
C23_EveryLineHandledUntilEndOfStream ==
    /\ line.kind = "blank" => (out = <<>> /\ http = <<>> /\ pc = "read")
    /\ line.kind = "eof" => pc = "stopped"
    /\ (pc = "stopped" /\ line.kind # "ioerror") => line.kind = "eof"

\* C24 (as claimed): started with a configuration that passes validate,
\* main() serves the protocol stream: it does not come to its end before it
\* has read a request.
C24_MainServesBeforeItReturns ==
    (m_pc = "exited" /\ config # NoConfig /\ validate(config) = "") =>
        served > 0

\* C25: under read_only no tool call issues an upstream request whose verb
\* is not GET, whichever entry point serves it: the engine (which has GET
\* tools only), the server of server.py, and the FastMCP server with the
\* tools its main() registered.
C25_ReadOnlyIssuesOnlyGet ==
    /\ \A i \in 1..Len(http) : http[i].verb = "GET"
    /\ (config # NoConfig /\ access_level = READ_ONLY) =>
          \A i \in 1..Len(s_http) : s_http[i].request.verb = "GET"
    /\ (config # NoConfig /\ config.access_level = READ_ONLY) =>
          \A i \in 1..Len(f_http) : f_http[i].verb = "GET"

C25_Witness ==
    /\ config.access_level = READ_ONLY
    /\ f_pc = "idle"
    /\ mcp = read_tools
    /\ f_call = [name |-> "delete_variable", arguments |-> Args({"key"})]
    /\ f_http = <<>>

\* The names the engine returns for tools/list.
EngineListed == Range(tools_list_response(None).result.tools)

\* The line read last is a tools/call request of a shape the engine takes.
IsToolCall(l) == WellFormedRequest(l) /\ l.doc.method = Quote("tools/call")

\* The last call of the server gives every argument its tool requires.
Complete(c) == c.name \in ToolNames => MissingRequired(c) = {}

\* C26: in one entry point the registry and the dispatcher agree.  In
\* server.py, under read_only and under full, a dispatched call that gives
\* the required arguments issues its upstream request exactly when tools/list
\* returns its name, and a name that is not listed is rejected as unknown or
\* as not permitted; in the engine a tools/call request issues its request
\* exactly when the name is one that tools/list returns.
C26_RegistryAgreesWithDispatcher ==
    /\ (Dispatched /\ Complete(call)) =>
          LET names == Range(NamesOf(handle_list_tools(access_level)))
          IN  /\ Len(s_http) = 1 <=> call.name \in names
              /\ listed # <<>> => Range(NamesOf(listed)) = names
              /\ call.name \notin names =>
                    content \in
                      {<<TextContent("Error: Unknown tool: " \o call.name)>>,
                       <<TextContent(
                           "Error: Operation not permitted in read-only mode")>>}
    /\ IsToolCall(line) =>
          (http # <<>> <=> line.doc.params.name \in {Quote(n) : n \in EngineListed})

C26_Witness ==
    /\ access_level = READ_ONLY
    /\ "pause_dag" \notin Range(NamesOf(listed))
    /\ Len(listed) = 9
    /\ call = [name |-> "pause_dag", arguments |-> Args({"dag_id"})]
    /\ s_pc = "idle"
    /\ s_http = <<>>

\* C27: a message without an id member is not routed to a method: when its
\* method is tools/call, whatever its params, no tool is dispatched, no
\* upstream request is issued or waited for, and run() reads on.
C27_NotificationIsNotRouted ==
    (IsMessage(line) /\ ~HasId(line)) =>
        /\ http = <<>>
        /\ pending = NoPending
        /\ pc = "read"

C27_Witness ==
    /\ nread > 0
    /\ line.doc.id = ""
    /\ line.doc.method = Quote("tools/call")
    /\ line.doc.params.type = "object"
    /\ line.doc.params.name = Quote("list_dags")
    /\ http = <<>>
    /\ pc = "read"

\* C28: in a write branch of the dispatcher the check of the access level
\* comes before any reading of the arguments: under read_only a dispatched
\* call of a write-class tool that lacks a required argument (the empty
\* argument map included) returns the not-permitted error and not the error
\* of a missing argument, and issues nothing.
C28_AccessCheckPrecedesArguments ==
    (/\ Dispatched
     /\ access_level = READ_ONLY
     /\ call.name \in Range(WriteToolNames)
     /\ MissingRequired(call) # {}) =>
        /\ content[1].text = "Error: Operation not permitted in read-only mode"
        /\ \A k \in ArgNames : content[1].text # "Error: '" \o k \o "'"
        /\ Len(content) = 1
        /\ Len(s_http) = 0

C28_Witness ==
    /\ access_level = READ_ONLY
    /\ call = [name |-> "set_variable", arguments |-> NoArgs]
    /\ ncalls > 0
    /\ content =
          <<TextContent("Error: Operation not permitted in read-only mode")>>

====
